---- MODULE Spec2Model ----
(***************************************************************************)
(* GeminiCast: the App component (generation pipeline and playback        *)
(* controller), the geminiService stages and the AudioVisualizer          *)
(* component, as state machines.                                          *)
(*                                                                         *)
(* Spec     the App: handleGenerate with its three provider stages,       *)
(*          togglePlayback, the sources' completion callbacks and the     *)
(*          audio clock.                                                  *)
(* SpecVis  the AudioVisualizer component under a parent that re-renders  *)
(*          it with props drawn from small sets.                          *)
(* SpecScript  one script response through generateScript's acceptance    *)
(*          and renderScript, the response drawn from a small set.        *)
(* SpecLive the generation pipeline alone, every provider call and the    *)
(*          decode settling in the end (weak fairness of the settle steps).*)
(***************************************************************************)
EXTENDS Integers, Sequences, FiniteSets, TLC

\* ---------------------------------------------------------------- bounds
MaxTime == 2          \* the audio clock runs 0..MaxTime
MaxSources == 3       \* buffer sources created in one run
BufferDuration == 2   \* length of a decoded episode, in clock ticks
MaxFrames == 3        \* animation frames requested in one run of the visualizer
MaxTurns == 3         \* dialogue entries in one script response

\* ------------------------------------------------------------- constants
Null == "null"

LoadingStages ==
  {"IDLE", "WRITING_SCRIPT", "GENERATING_ART", "SYNTHESIZING_AUDIO", "COMPLETE", "ERROR"}

\* what the user types into the topic field: nothing, a blank, a topic
Topics == {<<>>, <<" ">>, <<" ", "a", " ">>}

FallbackMessage == "Something went wrong creating your podcast."

VARIABLES
  \* App state (useState)
  topic, loadingStage, episode, isPlaying, error,
  \* App refs (useRef)
  audioContextRef, sourceNodeRef, startTimeRef, pausedTimeRef,
  \* the run of handleGenerate in flight and its stage promises
  pc, scriptState, artState, artValue, audioState, audioPayload, audioValue, calls,
  \* environment: credential, audio clock, the buffer sources created so far
  apiKey, now, sources,
  \* the step taken last: one of the App's handlers handleGenerate,
  \* togglePlayback and onended with the branch it took, or "other"
  lastOp,
  \* AudioVisualizer: props, React's effect bookkeeping, refs, frame callbacks
  vMounted, vAudioContext, vSourceNode, vIsPlaying, vCanvas,
  vDeps, vCleanup, analyserRef, animationRef,
  rafNext, rafPending, analysers, connected, vEnded, vAttachThrew, vRaised,
  \* one script response on its way from the provider to the transcript:
  \* response.text, what generateScript made of it, the turns renderScript drew
  responseText, scriptResult, scriptTurns

genVars ==
  <<pc, scriptState, artState, artValue, audioState, audioPayload, audioValue, calls>>

appVars ==
  <<topic, loadingStage, episode, isPlaying, error,
    audioContextRef, sourceNodeRef, startTimeRef, pausedTimeRef,
    genVars, apiKey, now, sources, lastOp>>

visVars ==
  <<vMounted, vAudioContext, vSourceNode, vIsPlaying, vCanvas,
    vDeps, vCleanup, analyserRef, animationRef,
    rafNext, rafPending, analysers, connected, vEnded, vAttachThrew, vRaised>>

scriptVars == <<responseText, scriptResult, scriptTurns>>

vars == <<appVars, visVars, scriptVars>>

\* ------------------------------------------------------------------ topic
RECURSIVE TrimStart(_)
TrimStart(s) ==
  IF s # <<>> /\ Head(s) = " " THEN TrimStart(Tail(s)) ELSE s

RECURSIVE TrimEnd(_)
TrimEnd(s) ==
  IF s # <<>> /\ s[Len(s)] = " " THEN TrimEnd(SubSeq(s, 1, Len(s) - 1)) ELSE s

\* String.prototype.trim
Trim(s) == TrimEnd(TrimStart(s))

\* the form's input and button are in their loading state
Busy == loadingStage \notin {"IDLE", "COMPLETE", "ERROR"}


\* ------------------------------------------------------- Web Audio sources
\* AudioBufferSourceNode: created by createBufferSource, started once with
\* start(0, offset); status is "playing" from start until stop() or the end of
\* the buffer; endedQueued says its ended event is queued and not yet dispatched.
\* A source that has finished has no playhead: its offset and start time are 0.
\* output is the node it is connected to.
NewSource(buffer, offset) ==
  [buffer |-> buffer, offset |-> offset, startedAt |-> now,
   status |-> "playing", endedQueued |-> FALSE, output |-> "destination"]

\* a source that stopped or ended, its ended event queued
Finished(src, how) ==
  [src EXCEPT !.offset = 0, !.startedAt = 0, !.status = how, !.endedQueued = TRUE]

\* the source's playhead has reached the end of its buffer
AtEnd(i) ==
  /\ sources[i].status = "playing"
  /\ sources[i].offset + (now - sources[i].startedAt) >= BufferDuration

\* source.stop(): a playing source stops and its ended event is queued; a
\* source that has already finished is left as it is
Stopped(i) ==
  IF sources[i].status = "playing"
    THEN [sources EXCEPT ![i] = Finished(@, "stopped")]
    ELSE sources

\* setEpisode(null) drops the episode whose buffer the sources so far play:
\* from then on "AudioBuffer" names the buffer of the episode to come, and the
\* buffer of an earlier episode is "released"
Released(srcs) ==
  [i \in 1..Len(srcs) |-> [srcs[i] EXCEPT !.buffer = "released"]]

\* whether source.stop() throws: never for a playing source; stopping a source
\* that has already finished throws in some implementations and not in others
StopThrows(i) ==
  IF sources[i].status = "playing" THEN {FALSE} ELSE BOOLEAN

\* stop() called outside a try statement: what it throws leaves the handler
StopUncaught(threw) == threw

\* try { sourceNodeRef.current.stop(); } catch (e) {} : whether the
\* exception leaves the try statement
StopEscapes(threw) == FALSE

\* ------------------------------------------------------ playback controller
\* the guard of togglePlayback without its test of the episode
HasContextOnly == audioContextRef # Null

\* the guard of togglePlayback
HasBuffer ==
  /\ episode # <<>>
  /\ episode[1].audioBuffer # Null
  /\ audioContextRef # Null

\* episode.audioBuffer, read where the guard has let the handler through
EpisodeBuffer == IF episode = <<>> THEN Null ELSE episode[1].audioBuffer

\* the pause branch assigning the segment's length instead of adding it
PausedAssigned(paused, start, current) == current - start

\* pausedTimeRef.current += audioContext.currentTime - startTimeRef.current
PausedAfter(paused, start, current) == paused + (current - start)

\* the pause branch
Pause ==
  IF sourceNodeRef # 0
    THEN \E threw \in StopThrows(sourceNodeRef) :
           /\ sources' = Stopped(sourceNodeRef)
           /\ IF StopEscapes(threw)
                THEN UNCHANGED <<pausedTimeRef, isPlaying>>
                ELSE /\ pausedTimeRef' = PausedAfter(pausedTimeRef, startTimeRef, now)
                     /\ isPlaying' = FALSE
           /\ UNCHANGED <<startTimeRef, sourceNodeRef>>
    ELSE UNCHANGED <<sources, pausedTimeRef, isPlaying, startTimeRef, sourceNodeRef>>

\* a play branch that hands the start time of the last segment to source.start
StartAtSegment == startTimeRef

\* the offset the play branch hands to source.start
StartOffset == pausedTimeRef

\* the play branch
Play ==
  /\ Len(sources) < MaxSources
  /\ sources' = Append(sources, NewSource(EpisodeBuffer, StartOffset))
  /\ startTimeRef' = now
  /\ sourceNodeRef' = Len(sources) + 1
  /\ isPlaying' = TRUE
  /\ UNCHANGED pausedTimeRef

TogglePlayback ==
  /\ lastOp' = IF ~HasBuffer THEN "togglePlayback:return"
                ELSE IF isPlaying THEN "togglePlayback:pause" ELSE "togglePlayback:play"
  /\ IF ~HasBuffer
       THEN UNCHANGED <<sources, pausedTimeRef, isPlaying, startTimeRef, sourceNodeRef>>
       ELSE IF isPlaying THEN Pause ELSE Play
  /\ UNCHANGED <<topic, loadingStage, episode, error, audioContextRef,
                 genVars, apiKey, now>>
  /\ UNCHANGED <<visVars, scriptVars>>

\* an onended that leaves the paused offset alone
EndedOffsetKept == pausedTimeRef

\* onended: pausedTimeRef.current = 0
EndedOffset == 0

\* source.onended, dispatched for source i
OnEnded(i) ==
  /\ i \in 1..Len(sources)
  /\ sources[i].endedQueued
  /\ sources' = [sources EXCEPT ![i].endedQueued = FALSE]
  /\ isPlaying' = FALSE
  /\ pausedTimeRef' = EndedOffset
  /\ lastOp' = "onended"
  /\ UNCHANGED <<topic, loadingStage, episode, error, audioContextRef, sourceNodeRef,
                 startTimeRef, genVars, apiKey, now>>
  /\ UNCHANGED <<visVars, scriptVars>>

\* the audio thread: source i plays to the end of its buffer
NaturalEnd(i) ==
  /\ i \in 1..Len(sources)
  /\ AtEnd(i)
  /\ sources' = [sources EXCEPT ![i] = Finished(@, "ended")]
  /\ lastOp' = "other"
  /\ UNCHANGED <<topic, loadingStage, episode, isPlaying, error, audioContextRef,
                 sourceNodeRef, startTimeRef, pausedTimeRef, genVars, apiKey, now>>
  /\ UNCHANGED <<visVars, scriptVars>>

\* audioContext.currentTime advances; a source whose playhead is at the end of
\* its buffer ends before the clock moves on
Tick ==
  /\ audioContextRef # Null
  /\ now < MaxTime
  /\ \A i \in 1..Len(sources) : ~AtEnd(i)
  /\ now' = now + 1
  /\ lastOp' = "other"
  /\ UNCHANGED <<topic, loadingStage, episode, isPlaying, error, audioContextRef,
                 sourceNodeRef, startTimeRef, pausedTimeRef, genVars, apiKey, sources>>
  /\ UNCHANGED <<visVars, scriptVars>>


\* ------------------------------------------------------ generation pipeline
\* what the provider can answer to the script request
ScriptResponses == {"json", "empty", "notjson", "rejected"}

\* what the provider can answer to the image request
ArtResponses == {"image", "noimage", "rejected"}

\* what the provider can answer to a speech request
TtsResponses == {"response", "rejected"}

\* the inline audio payload of the second speech response: missing, audio the
\* decoder accepts, or bytes it does not
SafeTtsResponses == {"valid", "corrupt", "noaudio", "rejected"}

\* err.message of a rejected provider call: some message, or none
RejectionMessages == {"", "Request failed"}

\* setError(err.message)
ErrTextNoFallback(msg) == msg

\* setError(err.message || "Something went wrong creating your podcast.")
ErrText(msg) == IF msg = "" THEN FallbackMessage ELSE msg

\* getAiClient throws when process.env.API_KEY is not set
GetAiClientThrows == ~apiKey

NoCalls == [script |-> 0, image |-> 0, tts |-> 0]

\* the catch block of handleGenerate
Catch(msg) ==
  /\ error' = ErrText(msg)
  /\ loadingStage' = "ERROR"
  /\ pc' = "idle"

\* the audio stage started only once the art stage has been awaited
IssuedInSequence == [art |-> "pending", audio |-> "none"]

\* the stages handleGenerate starts once the script has arrived: generateCoverArt
\* is called, then generateAudio, and only then are the two promises awaited
IssuedAfterScript == [art |-> "pending", audio |-> "tts"]

\* the join fulfilled by the art stage alone
ArtFulfilled(art, audio) == art = "ok"

\* Promise.all([artPromise, audioPromise]) is fulfilled
AllFulfilled(art, audio) == art = "ok" /\ audio = "ok"

\* the join rejected by the art stage alone
ArtRejected(art, audio) == art = "failed"

\* Promise.all([artPromise, audioPromise]) is rejected
AnyRejected(art, audio) == art = "failed" \/ audio = "failed"

\* await Promise.all(...) and what follows it, run when a stage promise settles:
\* art and audio are the stages' states after the settlement, msg the message of
\* the stage that failed. A run that has already ended ignores the settlement.
Join(art, cover, audio, buffer, msg) ==
  IF pc # "join"
    THEN UNCHANGED <<episode, error, loadingStage, pc>>
    ELSE IF AnyRejected(art, audio)
      THEN /\ Catch(msg)
           /\ UNCHANGED episode
      ELSE IF AllFulfilled(art, audio)
        THEN /\ episode' = <<[script |-> "script", coverImageBase64 |-> cover,
                              audioBuffer |-> buffer]>>
             /\ loadingStage' = "COMPLETE"
             /\ pc' = "idle"
             /\ UNCHANGED error
        ELSE UNCHANGED <<episode, error, loadingStage, pc>>

\* the form's onSubmit. A stage of an earlier, failed run that has not settled
\* yet keeps running in the browser; its result is ignored and it is no longer
\* tracked once a new run starts.
HandleGenerate ==
  /\ ~Busy
  /\ lastOp' = IF Trim(topic) = <<>> THEN "handleGenerate:return"
                ELSE IF sourceNodeRef # 0 /\ sources[sourceNodeRef].status = "playing"
                  THEN "handleGenerate:stop"
                  ELSE "handleGenerate"
  /\ IF Trim(topic) = <<>>
       THEN UNCHANGED <<episode, isPlaying, error, loadingStage, audioContextRef,
                        sources, genVars>>
       ELSE \E threw \in (IF sourceNodeRef # 0 THEN StopThrows(sourceNodeRef) ELSE {FALSE}) :
         /\ episode' = <<>>
         /\ isPlaying' = FALSE
         /\ sources' = Released(IF sourceNodeRef # 0 THEN Stopped(sourceNodeRef) ELSE sources)
         /\ IF StopEscapes(threw)
              THEN /\ error' = Null
                   /\ UNCHANGED <<loadingStage, audioContextRef, genVars>>
              ELSE /\ audioContextRef' = "ctx"
                   /\ artState' = "none"
                   /\ artValue' = Null
                   /\ audioState' = "none"
                   /\ audioPayload' = Null
                   /\ audioValue' = Null
                   /\ IF GetAiClientThrows
                        THEN /\ Catch("API_KEY not found in environment")
                             /\ scriptState' = "failed"
                             /\ calls' = NoCalls
                        ELSE /\ error' = Null
                             /\ loadingStage' = "WRITING_SCRIPT"
                             /\ pc' = "script"
                             /\ scriptState' = "pending"
                             /\ calls' = [NoCalls EXCEPT !.script = 1]
  /\ UNCHANGED <<topic, sourceNodeRef, startTimeRef, pausedTimeRef, apiKey, now>>
  /\ UNCHANGED <<visVars, scriptVars>>

\* the topic field's onChange
SetTopic(t) ==
  /\ ~Busy
  /\ topic' = t
  /\ lastOp' = "other"
  /\ UNCHANGED <<loadingStage, episode, isPlaying, error, audioContextRef, sourceNodeRef,
                 startTimeRef, pausedTimeRef, genVars, apiKey, now, sources>>
  /\ UNCHANGED <<visVars, scriptVars>>

\* the script request settles and handleGenerate resumes after its first await
ScriptSettled(r) ==
  /\ pc = "script"
  /\ lastOp' = "other"
  /\ IF r = "json"
       THEN /\ scriptState' = "ok"
            /\ artState' = IssuedAfterScript.art
            /\ IF audioContextRef = Null
                 THEN /\ Catch("Audio Context not initialized")
                      /\ calls' = [calls EXCEPT !.image = @ + 1]
                      /\ UNCHANGED audioState
                 ELSE /\ audioState' = IssuedAfterScript.audio
                      /\ calls' = [calls EXCEPT
                                     !.image = @ + 1,
                                     !.tts = IF IssuedAfterScript.audio = "tts" THEN @ + 1 ELSE @]
                      /\ loadingStage' = "SYNTHESIZING_AUDIO"
                      /\ pc' = "join"
                      /\ UNCHANGED error
       ELSE /\ scriptState' = "failed"
            /\ \E m \in (CASE r = "empty" -> {"No script generated"}
                           [] r = "notjson" -> {"Unexpected token in JSON"}
                           [] OTHER -> RejectionMessages) : Catch(m)
            /\ UNCHANGED <<artState, audioState, calls>>
  /\ UNCHANGED <<topic, episode, isPlaying, audioContextRef, sourceNodeRef, startTimeRef,
                 pausedTimeRef, artValue, audioPayload, audioValue, apiKey, now, sources>>
  /\ UNCHANGED <<visVars, scriptVars>>

\* generateCoverArt settles
ArtSettled(r) ==
  /\ artState = "pending"
  /\ lastOp' = "other"
  /\ IF r = "image"
       THEN /\ artState' = "ok"
            /\ artValue' = "data:image/png;base64,iVBOR"
            /\ Join("ok", artValue', audioState, audioValue, "")
       ELSE /\ artState' = "failed"
            /\ UNCHANGED artValue
            /\ \E m \in (IF r = "noimage" THEN {"No image generated"} ELSE RejectionMessages) :
                 Join("failed", Null, audioState, audioValue, m)
  /\ UNCHANGED <<topic, isPlaying, audioContextRef, sourceNodeRef, startTimeRef,
                 pausedTimeRef, scriptState, audioState, audioPayload, audioValue, calls,
                 apiKey, now, sources>>
  /\ UNCHANGED <<visVars, scriptVars>>

\* generateAudio: its first speech request settles and the second is issued
TtsSettled(r) ==
  /\ audioState = "tts"
  /\ lastOp' = "other"
  /\ IF r = "response"
       THEN /\ audioState' = "safeTts"
            /\ calls' = [calls EXCEPT !.tts = @ + 1]
            /\ UNCHANGED <<episode, error, loadingStage, pc>>
       ELSE /\ audioState' = "failed"
            /\ UNCHANGED calls
            /\ \E m \in RejectionMessages : Join(artState, artValue, "failed", Null, m)
  /\ UNCHANGED <<topic, isPlaying, audioContextRef, sourceNodeRef, startTimeRef,
                 pausedTimeRef, scriptState, artState, artValue, audioPayload, audioValue,
                 apiKey, now, sources>>
  /\ UNCHANGED <<visVars, scriptVars>>

\* a response taken to carry a payload whatever it carries
MissingUnnoticed(r) == FALSE

\* !audioBase64: the response carries no inline audio data, or an empty one
PayloadMissing(r) == r = "noaudio"

\* generateAudio: the second speech request settles; a payload that is there is
\* handed to decodeAudioData
SafeTtsSettled(r) ==
  /\ audioState = "safeTts"
  /\ lastOp' = "other"
  /\ IF r = "rejected"
       THEN /\ audioState' = "failed"
            /\ UNCHANGED audioPayload
            /\ \E m \in RejectionMessages : Join(artState, artValue, "failed", Null, m)
       ELSE IF PayloadMissing(r)
         THEN /\ audioState' = "failed"
              /\ audioPayload' = r
              /\ Join(artState, artValue, "failed", Null, "No audio generated")
         ELSE /\ audioState' = "decoding"
              /\ audioPayload' = r
              /\ UNCHANGED <<episode, error, loadingStage, pc>>
  /\ UNCHANGED <<topic, isPlaying, audioContextRef, sourceNodeRef, startTimeRef,
                 pausedTimeRef, scriptState, artState, artValue, audioValue, calls,
                 apiKey, now, sources>>
  /\ UNCHANGED <<visVars, scriptVars>>

\* generateAudio: audioContext.decodeAudioData settles
DecodeSettled ==
  /\ audioState = "decoding"
  /\ lastOp' = "other"
  /\ IF audioPayload = "valid"
       THEN /\ audioState' = "ok"
            /\ audioValue' = "AudioBuffer"
            /\ Join(artState, artValue, "ok", audioValue', "")
       ELSE /\ audioState' = "failed"
            /\ UNCHANGED audioValue
            /\ Join(artState, artValue, "failed", Null, "Unable to decode audio data")
  /\ UNCHANGED <<topic, isPlaying, audioContextRef, sourceNodeRef, startTimeRef,
                 pausedTimeRef, scriptState, artState, artValue, audioPayload, calls,
                 apiKey, now, sources>>
  /\ UNCHANGED <<visVars, scriptVars>>

\* ---------------------------------------------------------- initial states
\* no script response under way
NoText == [kind |-> "empty", dialogue |-> <<>>]

ScriptIdle ==
  /\ responseText = NoText
  /\ scriptResult = [state |-> "none", dialogue |-> <<>>, message |-> Null]
  /\ scriptTurns = <<>>

VisInit ==
  /\ vMounted = FALSE
  /\ vAudioContext = FALSE
  /\ vSourceNode = 0
  /\ vIsPlaying = FALSE
  /\ vCanvas = FALSE
  /\ vDeps = <<>>
  /\ vCleanup = FALSE
  /\ analyserRef = 0
  /\ animationRef = 0
  /\ rafNext = 1
  /\ rafPending = {}
  /\ analysers = 0
  /\ connected = {}
  /\ vEnded = {}
  /\ vAttachThrew = FALSE
  /\ vRaised = FALSE

AppInit ==
  /\ topic = <<>>
  /\ loadingStage = "IDLE"
  /\ episode = <<>>
  /\ isPlaying = FALSE
  /\ error = Null
  /\ audioContextRef = Null
  /\ sourceNodeRef = 0
  /\ startTimeRef = 0
  /\ pausedTimeRef = 0
  /\ pc = "idle"
  /\ scriptState = "none"
  /\ artState = "none"
  /\ artValue = Null
  /\ audioState = "none"
  /\ audioPayload = Null
  /\ audioValue = Null
  /\ calls = NoCalls
  /\ now = 0
  /\ sources = <<>>
  /\ lastOp = "init"

\* ------------------------------------------------------------ AudioVisualizer
\* the sources a parent can hand to the visualizer
VisSources == {1, 2}

\* the props of the render React committed last
Props == <<vAudioContext, vSourceNode, vIsPlaying>>

\* !audioContext || !sourceNode || !isPlaying
Unavailable(props) == ~props[1] \/ props[2] = 0 \/ ~props[3]

\* cancelAnimationFrame(id): the callback requested under id will not run;
\* an id that is not pending, or 0, cancels nothing
Cancelled(pending, id) == pending \ {id}

\* sourceNode.connect(analyser) throws: never the first time on a live source; a
\* source that is already connected or has finished may make it throw
ConnectThrows(src) ==
  IF src \in connected \/ src \in vEnded THEN BOOLEAN ELSE {FALSE}

\* connect called outside a try statement: what it throws leaves the effect
ConnectUncaught(threw) == threw

\* try { sourceNode.connect(analyserRef.current); } catch(e) {} : whether the
\* exception leaves the try statement
ConnectEscapes(threw) == FALSE

\* draw requesting the next frame without recording the request
UnrecordedRequest(id) == animationRef

\* draw: animationRef.current = requestAnimationFrame(draw)
StoredRequest(id) == id

\* one call of draw, on the pending set it finds: it requests the next frame and
\* records the request
Draw(pending) ==
  /\ animationRef' = StoredRequest(rafNext)
  /\ rafPending' = pending \cup {rafNext}
  /\ rafNext' = rafNext + 1

\* the body of the effect, run on the pending set the cleanup left
EffectBody(pending) ==
  IF Unavailable(Props)
    THEN /\ rafPending' = IF animationRef # 0 THEN Cancelled(pending, animationRef) ELSE pending
         /\ vCleanup' = FALSE
         /\ UNCHANGED <<analyserRef, analysers, connected, animationRef, rafNext,
                        vAttachThrew, vRaised>>
    ELSE IF ~vCanvas
      THEN /\ rafPending' = pending
           /\ vCleanup' = FALSE
           /\ UNCHANGED <<analyserRef, analysers, connected, animationRef, rafNext,
                          vAttachThrew, vRaised>>
      ELSE /\ analyserRef' = IF analyserRef = 0 THEN analysers + 1 ELSE analyserRef
           /\ analysers' = IF analyserRef = 0 THEN analysers + 1 ELSE analysers
           /\ \E threw \in ConnectThrows(vSourceNode) :
                /\ vAttachThrew' = threw
                /\ connected' = IF threw THEN connected ELSE connected \cup {vSourceNode}
                /\ IF ConnectEscapes(threw)
                     THEN /\ vRaised' = TRUE
                          /\ vCleanup' = FALSE
                          /\ rafPending' = pending
                          /\ UNCHANGED <<animationRef, rafNext>>
                     ELSE /\ rafNext <= MaxFrames
                          /\ Draw(pending)
                          /\ vCleanup' = TRUE
                          /\ UNCHANGED vRaised

\* React runs the effect after a commit whose deps differ from those of the
\* run before: first the cleanup the run before returned, then the body
RunEffect ==
  /\ vMounted
  /\ ~vRaised
  /\ vDeps # <<Props>>
  /\ vDeps' = <<Props>>
  /\ EffectBody(IF vCleanup THEN Cancelled(rafPending, animationRef) ELSE rafPending)
  /\ UNCHANGED <<vMounted, vAudioContext, vSourceNode, vIsPlaying, vCanvas, vEnded>>
  /\ UNCHANGED <<appVars, scriptVars>>

\* the parent renders the visualizer for the first time; the instance starts
\* with fresh refs
Mount(ctx, src, playing, canvas) ==
  /\ ~vMounted
  /\ vMounted' = TRUE
  /\ vAudioContext' = ctx
  /\ vSourceNode' = src
  /\ vIsPlaying' = playing
  /\ vCanvas' = canvas
  /\ vDeps' = <<>>
  /\ analyserRef' = 0
  /\ analysers' = 0
  /\ animationRef' = 0
  /\ connected' = {}
  /\ vAttachThrew' = FALSE
  /\ UNCHANGED <<vCleanup, rafNext, rafPending, vEnded, vRaised>>
  /\ UNCHANGED <<appVars, scriptVars>>

\* the parent renders the visualizer again
Render(ctx, src, playing) ==
  /\ vMounted
  /\ ~vRaised
  /\ vAudioContext' = ctx
  /\ vSourceNode' = src
  /\ vIsPlaying' = playing
  /\ UNCHANGED <<vMounted, vCanvas, vDeps, vCleanup, analyserRef, animationRef, rafNext,
                 rafPending, analysers, connected, vEnded, vAttachThrew, vRaised>>
  /\ UNCHANGED <<appVars, scriptVars>>

\* the parent stops rendering the visualizer: React runs the cleanup
Unmount ==
  /\ vMounted
  /\ vMounted' = FALSE
  /\ rafPending' = IF vCleanup THEN Cancelled(rafPending, animationRef) ELSE rafPending
  /\ vCleanup' = FALSE
  /\ UNCHANGED <<vAudioContext, vSourceNode, vIsPlaying, vCanvas, vDeps, analyserRef,
                 animationRef, rafNext, analysers, connected, vEnded, vAttachThrew, vRaised>>
  /\ UNCHANGED <<appVars, scriptVars>>

\* the browser runs the callback requested under id: one draw step
Frame(id) ==
  /\ id \in rafPending
  /\ rafNext <= MaxFrames
  /\ Draw(rafPending \ {id})
  /\ UNCHANGED <<vMounted, vAudioContext, vSourceNode, vIsPlaying, vCanvas, vDeps,
                 vCleanup, analyserRef, analysers, connected, vEnded, vAttachThrew, vRaised>>
  /\ UNCHANGED <<appVars, scriptVars>>

\* a source handed to the visualizer stops or plays to its end
SourceFinishes(src) ==
  /\ src \notin vEnded
  /\ vEnded' = vEnded \cup {src}
  /\ UNCHANGED <<vMounted, vAudioContext, vSourceNode, vIsPlaying, vCanvas, vDeps,
                 vCleanup, analyserRef, animationRef, rafNext, rafPending, analysers,
                 connected, vAttachThrew, vRaised>>
  /\ UNCHANGED <<appVars, scriptVars>>

VisNext ==
  \/ \E ctx \in BOOLEAN, src \in {0} \cup VisSources, playing \in BOOLEAN, canvas \in BOOLEAN :
       Mount(ctx, src, playing, canvas)
  \/ \E ctx \in BOOLEAN, src \in {0} \cup VisSources, playing \in BOOLEAN :
       Render(ctx, src, playing)
  \/ RunEffect
  \/ Unmount
  \/ \E id \in 1..MaxFrames : Frame(id)
  \/ \E src \in VisSources : SourceFinishes(src)

VisSpecInit ==
  /\ AppInit
  /\ apiKey = TRUE
  /\ VisInit
  /\ ScriptIdle

SpecVis == VisSpecInit /\ [][VisNext]_vars


\* ------------------------------------------- script response to transcript
\* a dialogue entry of a response, as the responseSchema sent with the request
\* has it: speaker is one of the enum's two values, text a string
Speakers == {"Host", "Guest"}
Entries == [speaker : Speakers, text : {"a", "b"}]

RECURSIVE Dialogues(_)
Dialogues(n) ==
  IF n = 0 THEN {<<>>}
  ELSE Dialogues(n - 1) \cup {Append(d, e) : d \in {x \in Dialogues(n - 1) : Len(x) = n - 1}, e \in Entries}

\* response.text: empty, text that is not JSON, or a JSON document with a dialogue
ResponseTexts ==
  {NoText, [kind |-> "notjson", dialogue |-> <<>>]}
    \cup {[kind |-> "json", dialogue |-> d] : d \in Dialogues(MaxTurns)}

\* JSON.parse(text) as PodcastScript: the cast checks nothing, the document's
\* dialogue is the script's dialogue
ParsedDialogue(text) == text.dialogue

\* generateScript from response.text on
GenerateScriptReturns ==
  /\ scriptResult.state = "none"
  /\ scriptResult' =
       IF responseText.kind = "empty"
         THEN [state |-> "failed", dialogue |-> <<>>, message |-> "No script generated"]
       ELSE IF responseText.kind = "notjson"
         THEN [state |-> "failed", dialogue |-> <<>>, message |-> "SyntaxError"]
       ELSE [state |-> "ok", dialogue |-> ParsedDialogue(responseText), message |-> Null]
  /\ UNCHANGED <<responseText, scriptTurns, appVars, visVars>>

\* a turn drawn without its speaker label
UnlabelledTurn(line) ==
  [speaker |-> "", text |-> line.text,
   side |-> IF line.speaker = "Host" THEN "start" ELSE "end"]

\* one turn of the transcript: speaker label, text, and the side it sits on
RenderedTurn(line) ==
  [speaker |-> line.speaker, text |-> line.text,
   side |-> IF line.speaker = "Host" THEN "start" ELSE "end"]

\* renderScript: episode.script.dialogue.map
RenderScript ==
  /\ scriptResult.state = "ok"
  /\ scriptResult' = [scriptResult EXCEPT !.state = "rendered"]
  /\ scriptTurns' = [i \in 1..Len(scriptResult.dialogue) |-> RenderedTurn(scriptResult.dialogue[i])]
  /\ UNCHANGED <<responseText, appVars, visVars>>

ScriptInit ==
  /\ AppInit
  /\ apiKey = TRUE
  /\ VisInit
  /\ responseText \in ResponseTexts
  /\ scriptResult = [state |-> "none", dialogue |-> <<>>, message |-> Null]
  /\ scriptTurns = <<>>

ScriptNext ==
  \/ GenerateScriptReturns
  \/ RenderScript

SpecScript == ScriptInit /\ [][ScriptNext]_vars


\* --------------------------------------------------------------- the App
Init ==
  /\ AppInit
  /\ apiKey \in BOOLEAN
  /\ VisInit
  /\ ScriptIdle

Next ==
  \/ \E t \in Topics : SetTopic(t)
  \/ HandleGenerate
  \/ \E r \in ScriptResponses : ScriptSettled(r)
  \/ \E r \in ArtResponses : ArtSettled(r)
  \/ \E r \in TtsResponses : TtsSettled(r)
  \/ \E r \in SafeTtsResponses : SafeTtsSettled(r)
  \/ DecodeSettled
  \/ TogglePlayback
  \/ \E i \in 1..MaxSources : OnEnded(i)
  \/ \E i \in 1..MaxSources : NaturalEnd(i)
  \/ Tick

Spec == Init /\ [][Next]_vars

\* the steps of the generation pipeline: the form, handleGenerate and the
\* settling of its calls; the playback handlers neither read nor write a run
GenNext ==
  \/ \E t \in Topics : SetTopic(t)
  \/ HandleGenerate
  \/ \E r \in ScriptResponses : ScriptSettled(r)
  \/ \E r \in ArtResponses : ArtSettled(r)
  \/ \E r \in TtsResponses : TtsSettled(r)
  \/ \E r \in SafeTtsResponses : SafeTtsSettled(r)
  \/ DecodeSettled

\* the pipeline when the provider and the decoder answer every request in the
\* end: a call that can settle does not stay unsettled for ever
SpecLive ==
  /\ Init
  /\ [][GenNext]_vars
  /\ WF_vars(\E r \in ScriptResponses : ScriptSettled(r))
  /\ WF_vars(\E r \in ArtResponses : ArtSettled(r))
  /\ WF_vars(\E r \in TtsResponses : TtsSettled(r))
  /\ WF_vars(\E r \in SafeTtsResponses : SafeTtsSettled(r))
  /\ WF_vars(DecodeSettled)


\* the shape of the App's state
TypeOK ==
  /\ topic \in Topics
  /\ loadingStage \in LoadingStages
  /\ Len(episode) <= 1
  /\ isPlaying \in BOOLEAN
  /\ audioContextRef \in {Null, "ctx"}
  /\ sourceNodeRef \in 0..Len(sources)
  /\ Len(sources) <= MaxSources
  /\ startTimeRef \in 0..MaxTime
  /\ pausedTimeRef \in 0..MaxTime
  /\ now \in 0..MaxTime
  /\ pc \in {"idle", "script", "join"}
  /\ scriptState \in {"none", "pending", "ok", "failed"}
  /\ artState \in {"none", "pending", "ok", "failed"}
  /\ audioState \in {"none", "tts", "safeTts", "decoding", "ok", "failed"}
  /\ calls.script <= 1 /\ calls.image <= 1 /\ calls.tts <= 2

\* ================================================================ claims
\* the source recorded as current
Current == sources[sourceNodeRef]

\* the step is togglePlayback taking its pause branch
PauseStep == lastOp' = "togglePlayback:pause" /\ isPlaying /\ ~isPlaying'

\* the step is togglePlayback taking its play branch
PlayStep == lastOp' = "togglePlayback:play" /\ Len(sources') = Len(sources) + 1

\* C1: play at t0 from a paused state, then pause at t1 with no natural end in
\* between: the paused offset left by the pause is the offset the source was
\* started at (the paused offset before the play) plus t1 - t0; from offset 0
\* it is t1 - t0.
C1_PlayPauseOffset ==
  [][(PauseStep /\ sourceNodeRef # 0 /\ Current.status = "playing")
       => /\ pausedTimeRef' = Current.offset + (now - Current.startedAt)
          /\ (Current.offset = 0 => pausedTimeRef' = now - Current.startedAt)]_vars

\* C1 witness: a second segment, started at offset 1 at time 1, has been paused
\* at time 2
C1_Witness ==
  /\ lastOp = "togglePlayback:pause"
  /\ Len(sources) = 2
  /\ sources[1].status = "stopped"
  /\ sources[2].status = "stopped"
  /\ now = 2
  /\ pausedTimeRef = 2
  /\ ~isPlaying

\* the step dispatches the completion of the current source, which played to
\* the end of its buffer
NaturalCompletionStep ==
  /\ lastOp' = "onended"
  /\ sourceNodeRef # 0
  /\ Current.status = "ended"
  /\ Current.endedQueued
  /\ ~sources'[sourceNodeRef].endedQueued

\* the current source played to its end and its completion has been dispatched
CompletedNaturally ==
  /\ sourceNodeRef # 0
  /\ Current.status = "ended"
  /\ ~Current.endedQueued

\* C2: the completion of a source that reached the end of its buffer leaves
\* the state paused with the paused offset zero, and the next togglePlayback
\* starts a fresh source at offset 0.
C2_NaturalEndResets ==
  [][/\ NaturalCompletionStep => (~isPlaying' /\ pausedTimeRef' = 0)
     /\ (CompletedNaturally /\ lastOp' \in {"togglePlayback:play", "togglePlayback:pause"})
          => /\ PlayStep
             /\ sourceNodeRef' = Len(sources')
             /\ sources'[sourceNodeRef'].offset = 0
             /\ sources'[sourceNodeRef'].status = "playing"]_vars

\* C2 witness: after a natural end and its completion, a second source has
\* been started at offset 0
C2_Witness ==
  /\ lastOp = "togglePlayback:play"
  /\ Len(sources) = 2
  /\ sources[1].status = "ended"
  /\ ~sources[1].endedQueued
  /\ sources[2].status = "playing"
  /\ sources[2].offset = 0
  /\ isPlaying

\* no episode, no decoded buffer in it, or no audio context
NoDecodedBuffer ==
  \/ episode = <<>>
  \/ episode[1].audioBuffer = Null
  \/ audioContextRef = Null

\* the step is a call of togglePlayback
ToggleStep ==
  lastOp' \in {"togglePlayback:return", "togglePlayback:pause", "togglePlayback:play"}

\* C3: togglePlayback without a decoded buffer creates no source, stops nothing
\* and leaves isPlaying, the paused offset, the segment start time and the
\* current source unchanged.
C3_ToggleNoBuffer ==
  [][(ToggleStep /\ NoDecodedBuffer)
       => UNCHANGED <<sources, isPlaying, pausedTimeRef, startTimeRef, sourceNodeRef>>]_vars

\* C3 witness: togglePlayback has been called with no episode, after an earlier
\* episode left a source behind
C3_Witness ==
  /\ lastOp = "togglePlayback:return"
  /\ episode = <<>>
  /\ sourceNodeRef # 0
  /\ audioContextRef # Null


\* C4: the script stage completes successfully before the cover-art or the
\* audio request is issued; when it completes both requests are issued in the
\* same step, neither waiting for the other; if the script stage fails
\* neither stage is ever invoked.
C4_ScriptThenBoth ==
  /\ [](/\ (artState # "none" \/ audioState # "none" \/ calls.image > 0 \/ calls.tts > 0)
            => scriptState = "ok"
        /\ scriptState = "failed"
            => (artState = "none" /\ audioState = "none" /\ calls.image = 0 /\ calls.tts = 0))
  /\ [][(scriptState # "ok" /\ scriptState' = "ok")
          => /\ artState' = "pending"
             /\ audioState' = "tts"
             /\ calls' = [script |-> 1, image |-> 1, tts |-> 1]]_vars

\* C4 witness: the script has arrived and both stages are in flight
C4_Witness ==
  /\ scriptState = "ok"
  /\ artState = "pending"
  /\ audioState = "tts"
  /\ loadingStage = "SYNTHESIZING_AUDIO"

\* C5: once the audio stage has failed the run is in the ERROR stage with a
\* null episode, whether the art stage succeeded before the failure or
\* succeeds after it.
C5_AudioFailureDiscards ==
  audioState = "failed" => (loadingStage = "ERROR" /\ episode = <<>> /\ pc = "idle")

\* C5 witness: the art stage succeeded and the audio stage returned no payload
C5_Witness ==
  /\ artState = "ok"
  /\ audioState = "failed"
  /\ error = "No audio generated"
  /\ loadingStage = "ERROR"
  /\ episode = <<>>

\* some stage of the current run has failed
StageFailed == scriptState = "failed" \/ artState = "failed" \/ audioState = "failed"

\* C6: after a failure of any stage the loading stage is ERROR, the error
\* message is neither null nor empty and the episode is null; while the stage
\* stays ERROR the message does not change, so a second failing stage surfaces
\* no second message.
C6_FailureSurfacesOnce ==
  /\ [](StageFailed
          => (loadingStage = "ERROR" /\ error \notin {Null, ""} /\ episode = <<>>))
  /\ [][(loadingStage = "ERROR" /\ loadingStage' = "ERROR") => error' = error]_vars

\* C6 witness: both the art and the audio stage have failed
C6_Witness ==
  /\ artState = "failed"
  /\ audioState = "failed"
  /\ loadingStage = "ERROR"
  /\ error # Null

\* C7: in the COMPLETE stage the episode holds the script, a cover image and a
\* decoded buffer; an episode never lacks its cover image or its buffer.
C7_CompleteHasAll ==
  /\ loadingStage = "COMPLETE" => episode # <<>>
  /\ episode # <<>>
       => /\ episode[1].script # Null
          /\ episode[1].coverImageBase64 # Null
          /\ episode[1].audioBuffer # Null

\* C7 witness: a generation has completed
C7_Witness ==
  /\ loadingStage = "COMPLETE"
  /\ episode # <<>>
  /\ artState = "ok"
  /\ audioState = "ok"

\* the step is a call of handleGenerate that gets past the empty-topic return
GenerateStep == lastOp' \in {"handleGenerate", "handleGenerate:stop"}

EffectStep == vDeps' # vDeps /\ vDeps' = <<Props'>>

\* the props the effect ran on lack the audio context, the source or the
\* playing flag
InputsMissing == ~vAudioContext' \/ vSourceNode' = 0 \/ ~vIsPlaying'

\* C9: a run of the effect on props without the playing flag, the audio context
\* or the source leaves no frame requested; while no loop is live (cancelled,
\* or never started) no frame is requested, so no draw step can run, and every
\* draw step belongs to a live loop; cancelling where nothing is requested
\* changes nothing and raises nothing.
C9_CancelStopsDrawing ==
  /\ [](~vCleanup => rafPending = {})
  /\ [](~vRaised)
  /\ [][/\ (EffectStep /\ InputsMissing) => (rafPending' = {} /\ ~vCleanup')
        /\ (EffectStep /\ InputsMissing /\ rafPending = {})
             => UNCHANGED <<rafPending, animationRef, rafNext, analyserRef, connected>>
        /\ rafNext' # rafNext => (vCleanup' /\ rafPending' = {animationRef'})]_vars

\* C9 witness: a loop that had drawn a later frame has been cancelled by a run
\* of the effect on isPlaying = false
C9_Witness ==
  /\ vMounted
  /\ vDeps = <<Props>>
  /\ vAudioContext
  /\ vSourceNode # 0
  /\ ~vIsPlaying
  /\ animationRef > 1
  /\ rafPending = {}
  /\ ~vCleanup

\* the props the effect ran on hold the audio context, a source and the
\* playing flag, and the canvas is there
InputsReady == vAudioContext' /\ vSourceNode' # 0 /\ vIsPlaying' /\ vCanvas'

\* C10: the attach step never raises, also when it runs again on a source that
\* is already connected or has finished; one instance creates at most one
\* analysis node and keeps it; after the attach, failed or not, the redraw loop
\* is started.
C10_AttachTolerant ==
  /\ [](~vRaised /\ analysers <= 1)
  /\ [][(EffectStep /\ InputsReady)
          => /\ vCleanup'
             /\ animationRef' \in rafPending'
             /\ analyserRef' # 0
             /\ (analyserRef # 0 => analyserRef' = analyserRef)]_vars

\* C10 witness: the attach step has run again on a connected source, connect
\* threw, and the loop is running
C10_Witness ==
  /\ vAttachThrew
  /\ vSourceNode \in connected
  /\ vDeps = <<Props>>
  /\ vCleanup
  /\ animationRef \in rafPending
  /\ ~vRaised

C12_NoBufferFromBadPayload ==
  /\ [](audioPayload = "noaudio" =>
          /\ audioState = "failed" /\ audioValue = Null
          /\ loadingStage = "ERROR" /\ episode = <<>>)
  /\ [](audioPayload = "corrupt" =>
          /\ audioState \in {"decoding", "failed"} /\ audioValue = Null
          /\ episode = <<>>
          /\ (audioState = "failed" => loadingStage = "ERROR"))
  /\ [][(audioPayload # "noaudio" /\ audioPayload' = "noaudio" /\ loadingStage # "ERROR")
          => error' = "No audio generated"]_vars
  /\ [][(audioPayload = "corrupt" /\ audioState = "decoding" /\ audioState' = "failed"
            /\ loadingStage # "ERROR")
          => error' = "Unable to decode audio data"]_vars

\* a corrupt payload went to the decoder, which rejected it, and the run ended in ERROR
C12_Witness ==
  /\ audioPayload = "corrupt"
  /\ audioState = "failed"
  /\ artState = "ok"
  /\ loadingStage = "ERROR"
  /\ error = "Unable to decode audio data"

\* C13: a generation that succeeds has made exactly three provider calls: one
\* for the script, one for the image, one for the speech; no stage has asked twice.
C13_ThreeProviderCalls ==
  loadingStage = "COMPLETE" => calls = [script |-> 1, image |-> 1, tts |-> 1]

\* the episode is paused where the user paused it: the current source was
\* stopped, by the pause branch, and nothing has been started since
PausedByUser ==
  /\ ~isPlaying
  /\ episode # <<>>
  /\ sourceNodeRef # 0
  /\ Current.status = "stopped"
  /\ Current.buffer = EpisodeBuffer

\* C14: the playback timeline of one episode. While a source plays, the
\* position played is the paused offset plus the time since the segment's
\* start; while the episode is paused after a pause, the paused offset stays
\* the position of that pause, whatever else happens, so that the play
\* following a pause starts its source where the first one was paused.
C14_PlaybackTimeline ==
  /\ []((isPlaying /\ sourceNodeRef # 0 /\ Current.status = "playing")
          => pausedTimeRef + (now - startTimeRef)
               = Current.offset + (now - Current.startedAt))
  /\ [][(PausedByUser /\ episode' = episode /\ ~PlayStep)
          => pausedTimeRef' = pausedTimeRef]_vars
  /\ [][(PausedByUser /\ PlayStep)
          => sources'[sourceNodeRef'].offset = pausedTimeRef]_vars

\* C15: every transition to playing creates a new source on the episode's
\* buffer, connected to the destination, started at the paused offset and
\* recorded as current, and leaves the older sources as they are; no source
\* that has stopped or ended ever plays again.
C15_FreshSourcePerPlay ==
  [][/\ (~isPlaying /\ isPlaying')
          => /\ episode # <<>>
             /\ Len(sources') = Len(sources) + 1
             /\ sourceNodeRef' = Len(sources')
             /\ sources'[sourceNodeRef'] =
                  [buffer |-> episode[1].audioBuffer, offset |-> pausedTimeRef,
                   startedAt |-> now, status |-> "playing", endedQueued |-> FALSE,
                   output |-> "destination"]
             /\ \A i \in 1..Len(sources) : sources'[i] = sources[i]
     /\ Len(sources') >= Len(sources)
     /\ \A i \in 1..Len(sources) :
          sources[i].status # "playing" => sources'[i].status # "playing"]_vars

\* C15 witness: the play after a pause at offset 1 has started a second source
\* there, the first one staying stopped
C15_Witness ==
  /\ lastOp = "togglePlayback:play"
  /\ isPlaying
  /\ Len(sources) = 2
  /\ sourceNodeRef = 2
  /\ sources[1].status = "stopped"
  /\ sources[2].status = "playing"
  /\ sources[2].offset = 1
  /\ sources[2].startedAt = 2

\* the step dispatches the completion of the current source, which the pause
\* branch had stopped
PausedCompletionStep ==
  /\ lastOp' = "onended"
  /\ PausedByUser
  /\ Current.endedQueued
  /\ ~sources'[sourceNodeRef].endedQueued

\* C16: the completion callback does not ask why its source stopped. Delivered
\* for a source that the user's pause stopped, it sets the state paused and the
\* paused offset to zero, whatever offset the pause had accumulated.
C16_CompletionIgnoresCause ==
  [][PausedCompletionStep => (~isPlaying' /\ pausedTimeRef' = 0)]_vars

\* C16 witness: the first source was played from time 0, paused later, and its
\* completion has been dispatched: the paused offset is back at zero
C16_Witness ==
  /\ lastOp = "onended"
  /\ episode # <<>>
  /\ Len(sources) = 1
  /\ sourceNodeRef = 1
  /\ sources[1].status = "stopped"
  /\ ~sources[1].endedQueued
  /\ startTimeRef = 0
  /\ now = 2
  /\ pausedTimeRef = 0
  /\ ~isPlaying

\* a provider call or the decode of the run is issued and has not settled
Unsettled ==
  \/ scriptState = "pending"
  \/ artState = "pending"
  \/ audioState \in {"tts", "safeTts", "decoding"}

\* C17 as stated: when every call settles, a generation that is under way ends
\* in COMPLETE or ERROR; and as long as one of its calls has not settled, the
\* loading stage is one of the busy stages.
C17_HungCallHangs ==
  /\ Busy ~> loadingStage \in {"COMPLETE", "ERROR"}
  /\ [](Unsettled => Busy)

\* C17 amended: when every call settles, a generation that is under way ends in
\* COMPLETE or ERROR; as long as one of its calls has not settled, the loading
\* stage is a busy stage, or it is ERROR because the other of the two parallel
\* stages has failed.
C17_EndsUnlessHung ==
  /\ Busy ~> loadingStage \in {"COMPLETE", "ERROR"}
  /\ [](Unsettled =>
          \/ Busy
          \/ /\ loadingStage = "ERROR"
             /\ pc = "idle"
             /\ scriptState = "ok"
             /\ artState = "failed" \/ audioState = "failed")

\* C17 witness: the image stage has failed and the run is in ERROR while the
\* speech request has not settled
C17_Witness ==
  /\ loadingStage = "ERROR"
  /\ artState = "failed"
  /\ audioState = "tts"
  /\ pc = "idle"

\* the sources that have been started and have neither stopped nor ended
Audible == {i \in 1..Len(sources) : sources[i].status = "playing"}

\* C18: no overlapping audio: at most one source is started and not yet
\* stopped or ended, whatever the interleaving of togglePlayback,
\* handleGenerate and the completion callbacks.
C18_NoOverlap == Cardinality(Audible) <= 1

\* C19: isPlaying says whether the current source is playing: it is true
\* whenever the source in sourceNodeRef has been started and has neither been
\* stopped nor ended, and only then, a source counting as ended once its
\* completion has been delivered; so the completion of an earlier source,
\* delivered after the user resumed, does not clear it.
C19_FlagTracksCurrent ==
  /\ (sourceNodeRef # 0 /\ Current.status = "playing") => isPlaying
  /\ isPlaying =>
       /\ sourceNodeRef # 0
       /\ \/ Current.status = "playing"
          \/ Current.status = "ended" /\ Current.endedQueued

\* the step is the first play of the episode: togglePlayback takes its play
\* branch and no source so far plays the episode's buffer
FirstPlayStep ==
  /\ PlayStep
  /\ \A i \in 1..Len(sources) : sources[i].buffer # EpisodeBuffer

\* C20: the first play of a newly generated episode starts its source at
\* offset 0, whatever was played, paused or completed on the episode before.
C20_FirstPlayFromZero ==
  [][FirstPlayStep => sources'[sourceNodeRef'].offset = 0]_vars

====
